---- MODULE Spec2Model ----
(***************************************************************************)
(* Model of SourceFile (server/src/analyzer/sourceFile.ts): the per-file   *)
(* analysis state machine.  One variable per private field; analysisJob is *)
(* the _analysisJob record with the field names of the AnalysisJob         *)
(* interface.  Optional values (T | undefined, number | null) are          *)
(* sequences of length 0 (absent) or 1 (present).                          *)
(***************************************************************************)
EXTENDS Integers, Sequences, FiniteSets, TLC

\* ------------------------------------------------------------------ bounds
\* Largest value _fileContentsVersion may reach (markDirty is cut off there).
MaxContentsVersion == 2
\* Largest value _diagnosticVersion may reach.
MaxDiagVersion == 6
\* Largest pass number at which the type analyzer may still ask for another
\* pass, and at which setTypeAnalysisPassNeeded may still be called.
MaxPass == 4
\* Number of distinct import cycles the coordinator may report.
NumCycles == 5

\* ------------------------------------------------------- program constants
MaxImportCyclesPerFile == 4

\* enum AnalysisPhase
Parse == 0
SemanticAnalysis == 1
TypeAnalysis == 2

\* A phase operation bumps _diagnosticVersion at most once, and at most
\* three bumps (parse, semantic analysis, finalize) follow a reset.
BumpsPerRound == TypeAnalysis + 1

\* ------------------------------------------------------------ value shapes
Undefined == <<>>
Some(x) == <<x>>
IsDefined(o) == Len(o) > 0
Value(o) == o[1]

\* DiagnosticCategory (common/diagnostic)
Error == "error"
Warning == "warning"

\* new Diagnostic(category, message, range): the message is its fixed text
\* followed by the lines appended to it (one per path of an import cycle).
Diagnostic(category, text, lines, range) ==
    [category |-> category, message |-> [text |-> text, lines |-> lines], range |-> range]

NoRange == "none"

\* DiagnosticSink.addError(message): one error diagnostic without a range.
addError(sink, text) == Append(sink, Diagnostic(Error, text, <<>>, NoRange))

\* Paths are sequences of characters.
startsWith(s, prefix) ==
    /\ Len(prefix) <= Len(s)
    /\ SubSeq(s, 1, Len(prefix)) = prefix

Map(f(_), s) == [i \in 1..Len(s) |-> f(s[i])]

\* ------------------------------------------------------------------- state
VARIABLES
    filePath,             \* _filePath
    isTypeshedStubFile,   \* _isTypeshedStubFile
    analysisJob,          \* _analysisJob
    diagnosticVersion,    \* _diagnosticVersion
    fileContentsVersion,  \* _fileContentsVersion
    clientVersion,        \* _clientVersion (Undefined models null)
    fileContents,         \* _fileContents
    assertFailed,         \* an assert() of a phase operation has thrown
    returned              \* the getDiagnostics call made since the last other
                          \* operation, if any, and what it returned

fileVars == <<filePath, isTypeshedStubFile, analysisJob, diagnosticVersion,
              fileContentsVersion, clientVersion, fileContents>>
vars == <<filePath, isTypeshedStubFile, analysisJob, diagnosticVersion,
          fileContentsVersion, clientVersion, fileContents, assertFailed, returned>>

\* The field initialisers of _analysisJob (optional fields are absent).
InitialJob ==
    [fileContentsVersion |-> -1,
     nextPhaseToRun |-> SemanticAnalysis,
     parseTreeNeedsCleaning |-> FALSE,
     parseResults |-> Undefined,
     parseDiagnostics |-> <<>>,
     semanticAnalysisDiagnostics |-> <<>>,
     typeAnalysisLastPassDiagnostics |-> <<>>,
     typeAnalysisFinalDiagnostics |-> <<>>,
     circularDependencies |-> <<>>,
     typeAnalysisPassNumber |-> 1,
     isTypeAnalysisPassNeeded |-> TRUE,
     isTypeAnalysisFinalized |-> FALSE,
     imports |-> Undefined,
     builtinsImport |-> Undefined,
     typingModulePath |-> Undefined]

\* No getDiagnostics call has been made since the last other operation.
NoCall == [called |-> FALSE, repeated |-> FALSE, options |-> Undefined,
           prev |-> Undefined, defined |-> FALSE, list |-> <<>>]

\* new SourceFile(filePath, isTypeshedStubFile)
InitWith(paths, typeshedFlags) ==
    /\ filePath \in paths
    /\ isTypeshedStubFile \in typeshedFlags
    /\ analysisJob = InitialJob
    /\ diagnosticVersion = 0
    /\ fileContentsVersion = 0
    /\ clientVersion = Undefined
    /\ fileContents = Undefined
    /\ assertFailed = FALSE
    /\ returned = NoCall

\* -------------------------------------------------------------- predicates
isParseRequired ==
    analysisJob.fileContentsVersion /= fileContentsVersion

\* Mutant: the phase cursor is compared with < instead of <=.
isSemanticAnalysisRequiredStrict ==
    IF isParseRequired THEN TRUE
    ELSE analysisJob.nextPhaseToRun < SemanticAnalysis

isSemanticAnalysisRequired ==
    IF isParseRequired THEN TRUE
    ELSE analysisJob.nextPhaseToRun <= SemanticAnalysis

isTypeAnalysisRequired ==
    IF isSemanticAnalysisRequired THEN TRUE
    ELSE IF \/ analysisJob.nextPhaseToRun < TypeAnalysis
            \/ analysisJob.isTypeAnalysisPassNeeded
         THEN TRUE
         ELSE FALSE

isAnalysisFinalized ==
    ~isTypeAnalysisRequired /\ analysisJob.isTypeAnalysisFinalized

getDiagnosticVersion == diagnosticVersion

getImports == IF IsDefined(analysisJob.imports) THEN Value(analysisJob.imports) ELSE <<>>

getBuiltinsImport == analysisJob.builtinsImport

\* ------------------------------------------------------------- diagnostics
\* CircularDependency.getPaths(): a cycle is its ordered chain of paths.
getPaths(cirDep) == cirDep

\* CircularDependency.isEqual: the same ordered path chain.
isEqual(dep, circDependency) == getPaths(dep) = getPaths(circDependency)

\* The diagnostic getDiagnostics builds for one recorded cycle.
CycleDiagnostic(category, cirDep) ==
    Diagnostic(category, "Cycle detected in import chain", getPaths(cirDep), NoRange)

\* Mutant: the downgraded copy of a diagnostic loses its range.
ErrorToWarningDropsRange(diag) ==
    IF diag.category = Error
    THEN Diagnostic(Warning, diag.message.text, diag.message.lines, NoRange)
    ELSE diag

\* The typeshed downgrade of one diagnostic.
ErrorToWarning(diag) ==
    IF diag.category = Error
    THEN Diagnostic(Warning, diag.message.text, diag.message.lines, diag.range)
    ELSE diag

\* Mutant: an ignore path matches only the file's whole path.
FindIgnorePathExact(ignore) ==
    LET hits == {i \in 1..Len(ignore) : filePath = ignore[i]}
    IN  IF hits = {} THEN Undefined
        ELSE Some(ignore[CHOOSE i \in hits : \A j \in hits : i <= j])

\* options.ignore.find(ignorePath => this._filePath.startsWith(ignorePath)):
\* the first matching entry, or absent.
FindIgnorePath(ignore) ==
    LET hits == {i \in 1..Len(ignore) : startsWith(filePath, ignore[i])}
    IN  IF hits = {} THEN Undefined
        ELSE Some(ignore[CHOOSE i \in hits : \A j \in hits : i <= j])

\* The truthiness of what find returned: absent and the empty string are falsy.
Truthy(found) == IsDefined(found) /\ Value(found) /= <<>>

None == [defined |-> FALSE, list |-> <<>>]
List(l) == [defined |-> TRUE, list |-> l]

getDiagnostics(options, prevDiagnosticVersion) ==
    IF Some(diagnosticVersion) = prevDiagnosticVersion
    THEN None
    ELSE
      LET base == analysisJob.parseDiagnostics
                  \o analysisJob.semanticAnalysisDiagnostics
                  \o analysisJob.typeAnalysisFinalDiagnostics
          category == IF options.reportImportCycles = "warning" THEN Warning ELSE Error
          withCycles ==
              IF /\ options.reportImportCycles /= "none"
                 /\ Len(analysisJob.circularDependencies) > 0
              THEN base \o [i \in 1..Len(analysisJob.circularDependencies) |->
                              CycleDiagnostic(category, analysisJob.circularDependencies[i])]
              ELSE base
          downgraded ==
              IF isTypeshedStubFile /\ options.reportTypeshedErrors = "warning"
              THEN Map(ErrorToWarning, withCycles)
              ELSE withCycles
      IN  IF isTypeshedStubFile /\ options.reportTypeshedErrors = "none"
          THEN None
          ELSE IF Truthy(FindIgnorePath(options.ignore))
               THEN List(<<>>)
               ELSE List(downgraded)

\* Mutant: the list is built in the stored parse bucket instead of a copy.
GetDiagnosticsInPlace(options, prev) ==
    /\ returned' = [called |-> TRUE,
                    repeated |-> /\ returned.called
                                 /\ returned.options = Some(options)
                                 /\ returned.prev = prev,
                    options |-> Some(options), prev |-> prev,
                    defined |-> getDiagnostics(options, prev).defined,
                    list |-> getDiagnostics(options, prev).list]
    /\ analysisJob' = IF getDiagnostics(options, prev).defined
                      THEN [analysisJob EXCEPT
                              !.parseDiagnostics = getDiagnostics(options, prev).list]
                      ELSE analysisJob
    /\ UNCHANGED <<filePath, isTypeshedStubFile, diagnosticVersion, fileContentsVersion,
                   clientVersion, fileContents, assertFailed>>

\* A call of getDiagnostics; the file's state is only read.  `repeated`: the
\* call before it, with nothing in between, had the same arguments.
GetDiagnostics(options, prev) ==
    /\ returned' = [called |-> TRUE,
                    repeated |-> /\ returned.called
                                 /\ returned.options = Some(options)
                                 /\ returned.prev = prev,
                    options |-> Some(options), prev |-> prev,
                    defined |-> getDiagnostics(options, prev).defined,
                    list |-> getDiagnostics(options, prev).list]
    /\ UNCHANGED <<fileVars, assertFailed>>

\* ---------------------------------------------------------------- mutators
\* Room left under MaxDiagVersion for the phases a reset makes necessary.
ResetAllowed == diagnosticVersion + BumpsPerRound <= MaxDiagVersion

\* Mutant: markDirty resets the analysis but forgets the contents version.
markDirtyKeepsVersion ==
    /\ fileContentsVersion' = fileContentsVersion
    /\ analysisJob' = [analysisJob EXCEPT !.isTypeAnalysisFinalized = FALSE,
                                          !.nextPhaseToRun = SemanticAnalysis]

markDirty ==
    /\ fileContentsVersion' = fileContentsVersion + 1
    /\ analysisJob' = [analysisJob EXCEPT !.isTypeAnalysisFinalized = FALSE,
                                          !.nextPhaseToRun = SemanticAnalysis]

MarkDirty ==
    /\ fileContentsVersion < MaxContentsVersion
    /\ ResetAllowed
    /\ markDirty
    /\ UNCHANGED <<filePath, isTypeshedStubFile, diagnosticVersion, clientVersion,
                   fileContents, assertFailed>>
    /\ returned' = NoCall

\* Mutant: markReanalysisRequired forgets to flag the tree for cleaning.
markReanalysisRequiredNoCleaning ==
    analysisJob' = [analysisJob EXCEPT !.nextPhaseToRun = SemanticAnalysis,
                                       !.isTypeAnalysisFinalized = FALSE]

markReanalysisRequired ==
    analysisJob' = [analysisJob EXCEPT !.nextPhaseToRun = SemanticAnalysis,
                                       !.parseTreeNeedsCleaning = TRUE,
                                       !.isTypeAnalysisFinalized = FALSE]

MarkReanalysisRequired ==
    /\ ResetAllowed
    /\ markReanalysisRequired
    /\ UNCHANGED <<filePath, isTypeshedStubFile, diagnosticVersion, fileContentsVersion,
                   clientVersion, fileContents, assertFailed>>
    /\ returned' = NoCall

SetClientVersion(version, contents) ==
    LET dirty == /\ IsDefined(version)
                 /\ IsDefined(fileContents)
                 /\ Value(fileContents) /= contents
    IN  /\ dirty => (fileContentsVersion < MaxContentsVersion /\ ResetAllowed)
        /\ clientVersion' = version
        /\ IF dirty THEN markDirty ELSE UNCHANGED <<fileContentsVersion, analysisJob>>
        /\ fileContents' = IF IsDefined(version) THEN Some(contents) ELSE Undefined
        /\ UNCHANGED <<filePath, isTypeshedStubFile, diagnosticVersion, assertFailed>>
    /\ returned' = NoCall

\* Mutant: setTypeAnalysisPassNeeded also rewinds the phase cursor.
SetTypeAnalysisPassNeededRewinds ==
    /\ ResetAllowed
    /\ analysisJob.typeAnalysisPassNumber <= MaxPass
    /\ analysisJob' = [analysisJob EXCEPT !.isTypeAnalysisPassNeeded = TRUE,
                                          !.isTypeAnalysisFinalized = FALSE,
                                          !.nextPhaseToRun = SemanticAnalysis]
    /\ UNCHANGED <<filePath, isTypeshedStubFile, diagnosticVersion, fileContentsVersion,
                   clientVersion, fileContents, assertFailed>>
    /\ returned' = NoCall

\* Mutant: setTypeAnalysisPassNeeded leaves the finalized flag as it is.
SetTypeAnalysisPassNeededKeepsFinalized ==
    /\ ResetAllowed
    /\ analysisJob.typeAnalysisPassNumber <= MaxPass
    /\ analysisJob' = [analysisJob EXCEPT !.isTypeAnalysisPassNeeded = TRUE]
    /\ UNCHANGED <<filePath, isTypeshedStubFile, diagnosticVersion, fileContentsVersion,
                   clientVersion, fileContents, assertFailed>>
    /\ returned' = NoCall

SetTypeAnalysisPassNeeded ==
    /\ ResetAllowed
    /\ analysisJob.typeAnalysisPassNumber <= MaxPass
    /\ analysisJob' = [analysisJob EXCEPT !.isTypeAnalysisPassNeeded = TRUE,
                                          !.isTypeAnalysisFinalized = FALSE]
    /\ UNCHANGED <<filePath, isTypeshedStubFile, diagnosticVersion, fileContentsVersion,
                   clientVersion, fileContents, assertFailed>>
    /\ returned' = NoCall

\* Mutant: the cap is compared with <= instead of <.
AddCircularDependencyOffByOne(circDependency) ==
    /\ analysisJob' =
         IF /\ Len(analysisJob.circularDependencies) <= MaxImportCyclesPerFile
            /\ ~\E i \in 1..Len(analysisJob.circularDependencies) :
                   isEqual(analysisJob.circularDependencies[i], circDependency)
         THEN [analysisJob EXCEPT !.circularDependencies = Append(@, circDependency)]
         ELSE analysisJob
    /\ UNCHANGED <<filePath, isTypeshedStubFile, diagnosticVersion, fileContentsVersion,
                   clientVersion, fileContents, assertFailed>>
    /\ returned' = NoCall

AddCircularDependency(circDependency) ==
    /\ analysisJob' =
         IF /\ Len(analysisJob.circularDependencies) < MaxImportCyclesPerFile
            /\ ~\E i \in 1..Len(analysisJob.circularDependencies) :
                   isEqual(analysisJob.circularDependencies[i], circDependency)
         THEN [analysisJob EXCEPT !.circularDependencies = Append(@, circDependency)]
         ELSE analysisJob
    /\ UNCHANGED <<filePath, isTypeshedStubFile, diagnosticVersion, fileContentsVersion,
                   clientVersion, fileContents, assertFailed>>
    /\ returned' = NoCall

\* ------------------------------------------------------------------- parse
\* The import resolver's answer for one module: its resolved paths.
ImportResult(paths) == [resolvedPaths |-> paths]

\* Mutant: an implicit import that resolves to no path is left out.
resolveImportsDropsUnresolved(builtins, typing, explicit) ==
    LET keepBuiltins == /\ Len(builtins.resolvedPaths) > 0
                        /\ builtins.resolvedPaths[1] /= filePath
        keepTyping == /\ Len(typing.resolvedPaths) > 0
                      /\ typing.resolvedPaths[1] /= filePath
    IN  [imports |-> (IF keepBuiltins THEN <<builtins>> ELSE <<>>)
                     \o (IF keepTyping THEN <<typing>> ELSE <<>>)
                     \o explicit,
         builtinsImport |-> IF keepBuiltins THEN Some(builtins) ELSE Undefined,
         typingModulePath |-> IF keepTyping THEN Some(typing.resolvedPaths[1])
                              ELSE Undefined]

\* _resolveImports: builtins, then typing, then the explicit imports in source
\* order; `builtins`, `typing` and `explicit` are the resolver's answers.
resolveImports(builtins, typing, explicit) ==
    LET keepBuiltins == \/ Len(builtins.resolvedPaths) = 0
                        \/ builtins.resolvedPaths[1] /= filePath
        keepTyping == \/ Len(typing.resolvedPaths) = 0
                      \/ typing.resolvedPaths[1] /= filePath
    IN  [imports |-> (IF keepBuiltins THEN <<builtins>> ELSE <<>>)
                     \o (IF keepTyping THEN <<typing>> ELSE <<>>)
                     \o explicit,
         builtinsImport |-> IF keepBuiltins THEN Some(builtins) ELSE Undefined,
         typingModulePath |-> IF keepTyping /\ Len(typing.resolvedPaths) > 0
                              THEN Some(typing.resolvedPaths[1])
                              ELSE Undefined]

ParsedTree == "parsed"
PlaceholderTree == "placeholder"

\* Mutant: the fault path of parse() stores no parse results.
NoPlaceholderResults == Undefined

\* What the fault path of parse() stores: an empty module, no tokens, no lines.
PlaceholderResults == Some(PlaceholderTree)

\* What fs.readFileSync returns for the file: the text on disk does not
\* change during a run.
DiskText == "x"

\* The text parse() would hand to the parser: the client's buffer when a
\* client version is set, the text on disk otherwise.
SourceText == IF clientVersion = Undefined THEN DiskText ELSE Value(fileContents)

\* The diagnostic sink parse() starts from: empty, or the read error when the
\* contents come from disk and the read fails.
ReadSink(readOk) ==
    IF clientVersion = Undefined /\ ~readOk
    THEN addError(<<>>, "Source file could not be read")
    ELSE <<>>

\* The value parse() returns: whether a parse was required and so ran.
parseReturns == IF ~isParseRequired THEN FALSE ELSE TRUE

\* Mutant: the catch block of parse() keeps the imports of the previous parse.
parseFaultKeepsImports(in) ==
    IF ~isParseRequired
    THEN UNCHANGED <<analysisJob, diagnosticVersion>>
    ELSE
      LET resolved == resolveImports(in.builtins, in.typing, in.explicit)
          parsed ==
              IF ~in.fault
              THEN [analysisJob EXCEPT
                      !.parseResults = Some(ParsedTree),
                      !.imports = Some(resolved.imports),
                      !.builtinsImport = resolved.builtinsImport,
                      !.typingModulePath = resolved.typingModulePath,
                      !.parseDiagnostics = ReadSink(in.readOk) \o in.diagnostics]
              ELSE [analysisJob EXCEPT
                      !.parseResults = PlaceholderResults,
                      !.parseDiagnostics =
                          addError(<<>>, "An internal error occurred while parsing file")]
      IN  /\ analysisJob' = [parsed EXCEPT
                               !.fileContentsVersion = fileContentsVersion,
                               !.nextPhaseToRun = SemanticAnalysis,
                               !.parseTreeNeedsCleaning = FALSE]
          /\ diagnosticVersion' = diagnosticVersion + 1

\* parse(configOptions).  in.readOk: the disk read succeeds; in.fault: the
\* parser, the walkers or the import resolver throw; in.diagnostics: what the
\* parser and the post-parse walker report; in.builtins, in.typing,
\* in.explicit: the resolver's answers.
parse(in) ==
    IF ~isParseRequired
    THEN UNCHANGED <<analysisJob, diagnosticVersion>>
    ELSE
      LET resolved == resolveImports(in.builtins, in.typing, in.explicit)
          parsed ==
              IF ~in.fault
              THEN [analysisJob EXCEPT
                      !.parseResults = Some(ParsedTree),
                      !.imports = Some(resolved.imports),
                      !.builtinsImport = resolved.builtinsImport,
                      !.typingModulePath = resolved.typingModulePath,
                      !.parseDiagnostics = ReadSink(in.readOk) \o in.diagnostics]
              ELSE [analysisJob EXCEPT
                      !.parseResults = PlaceholderResults,
                      !.imports = Undefined,
                      !.builtinsImport = Undefined,
                      !.parseDiagnostics =
                          addError(<<>>, "An internal error occurred while parsing file")]
      IN  /\ analysisJob' = [parsed EXCEPT
                               !.fileContentsVersion = fileContentsVersion,
                               !.nextPhaseToRun = SemanticAnalysis,
                               !.parseTreeNeedsCleaning = FALSE]
          /\ diagnosticVersion' = diagnosticVersion + 1

ParseFile(in) ==
    /\ parse(in)
    /\ UNCHANGED <<filePath, isTypeshedStubFile, fileContentsVersion, clientVersion,
                   fileContents, assertFailed>>
    /\ returned' = NoCall

\* ------------------------------------------------------- semantic analysis
\* The assert() calls of doSemanticAnalysis and of _buildFileInfo.
SemanticAnalysisAsserts ==
    /\ ~isParseRequired
    /\ isSemanticAnalysisRequired
    /\ IsDefined(analysisJob.parseResults)
    /\ analysisJob.nextPhaseToRun = SemanticAnalysis

\* _cleanParseTreeIfRequired, when the cleaner does not throw.
cleanParseTreeIfRequired(job) ==
    IF IsDefined(job.parseResults) /\ job.parseTreeNeedsCleaning
    THEN [job EXCEPT !.parseTreeNeedsCleaning = FALSE]
    ELSE job

\* Mutant: doSemanticAnalysis keeps the recorded circular dependencies.
doSemanticAnalysisKeepsCycles(out) ==
    LET tried ==
          IF out.kind = "ok"
          THEN [cleanParseTreeIfRequired(analysisJob) EXCEPT
                  !.semanticAnalysisDiagnostics = out.diagnostics]
          ELSE [(IF out.kind = "cleanFault" THEN analysisJob
                 ELSE cleanParseTreeIfRequired(analysisJob)) EXCEPT
                  !.semanticAnalysisDiagnostics =
                      addError(<<>>,
                        "An internal error occurred while performing semantic analysis")]
    IN  /\ analysisJob' = [tried EXCEPT
                             !.nextPhaseToRun = TypeAnalysis,
                             !.typeAnalysisPassNumber = 1,
                             !.isTypeAnalysisPassNeeded = TRUE,
                             !.isTypeAnalysisFinalized = FALSE]
        /\ diagnosticVersion' = diagnosticVersion + 1

\* doSemanticAnalysis.  out.kind: "ok", "cleanFault" (the tree cleaner throws)
\* or "analyzerFault" (the scope analyzer throws); out.diagnostics: what the
\* analyzer reports.
doSemanticAnalysis(out) ==
    LET tried ==
          IF out.kind = "ok"
          THEN [cleanParseTreeIfRequired(analysisJob) EXCEPT
                  !.semanticAnalysisDiagnostics = out.diagnostics]
          ELSE [(IF out.kind = "cleanFault" THEN analysisJob
                 ELSE cleanParseTreeIfRequired(analysisJob)) EXCEPT
                  !.semanticAnalysisDiagnostics =
                      addError(<<>>,
                        "An internal error occurred while performing semantic analysis")]
    IN  /\ analysisJob' = [tried EXCEPT
                             !.nextPhaseToRun = TypeAnalysis,
                             !.typeAnalysisPassNumber = 1,
                             !.circularDependencies = <<>>,
                             !.isTypeAnalysisPassNeeded = TRUE,
                             !.isTypeAnalysisFinalized = FALSE]
        /\ diagnosticVersion' = diagnosticVersion + 1

DoSemanticAnalysis(out) ==
    \* the cleaner runs, and so can throw, only when cleaning is required
    /\ out.kind = "cleanFault" =>
           (IsDefined(analysisJob.parseResults) /\ analysisJob.parseTreeNeedsCleaning)
    /\ IF SemanticAnalysisAsserts
       THEN doSemanticAnalysis(out) /\ UNCHANGED assertFailed
       ELSE assertFailed' = TRUE /\ UNCHANGED <<analysisJob, diagnosticVersion>>
    /\ UNCHANGED <<filePath, isTypeshedStubFile, fileContentsVersion, clientVersion,
                   fileContents>>
    /\ returned' = NoCall

\* ----------------------------------------------------------- type analysis
\* The assert() calls of doTypeAnalysis and of _buildFileInfo.
TypeAnalysisAsserts ==
    /\ ~isParseRequired
    /\ ~isSemanticAnalysisRequired
    /\ isTypeAnalysisRequired
    /\ IsDefined(analysisJob.parseResults)
    /\ analysisJob.nextPhaseToRun = TypeAnalysis

\* Mutant: the catch block does not force isTypeAnalysisPassNeeded to false.
doTypeAnalysisFaultKeepsPassNeeded(out) ==
    LET fault == [typeAnalysisLastPassDiagnostics |->
                      addError(<<>>,
                        "An internal error occurred while performing type analysis")]
    IN  analysisJob' =
          IF out.kind = "ok"
          THEN [analysisJob EXCEPT
                  !.typeAnalysisPassNumber = @ + 1,
                  !.isTypeAnalysisPassNeeded = out.needsAnotherPass,
                  !.typeAnalysisLastPassDiagnostics = out.diagnostics]
          ELSE IF out.kind = "analyzeFault"
          THEN [analysisJob EXCEPT
                  !.typeAnalysisPassNumber = @ + 1,
                  !.typeAnalysisLastPassDiagnostics = fault.typeAnalysisLastPassDiagnostics]
          ELSE [analysisJob EXCEPT
                  !.typeAnalysisLastPassDiagnostics = fault.typeAnalysisLastPassDiagnostics]

\* Mutant: a pass that completes does not advance the pass number.
doTypeAnalysisSkipsIncrement(out) ==
    LET fault == [isTypeAnalysisPassNeeded |-> FALSE,
                  typeAnalysisLastPassDiagnostics |->
                      addError(<<>>,
                        "An internal error occurred while performing type analysis")]
    IN  analysisJob' =
          IF out.kind = "ok"
          THEN [analysisJob EXCEPT
                  !.isTypeAnalysisPassNeeded = out.needsAnotherPass,
                  !.typeAnalysisLastPassDiagnostics = out.diagnostics]
          ELSE IF out.kind = "analyzeFault"
          THEN [analysisJob EXCEPT
                  !.typeAnalysisPassNumber = @ + 1,
                  !.isTypeAnalysisPassNeeded = fault.isTypeAnalysisPassNeeded,
                  !.typeAnalysisLastPassDiagnostics = fault.typeAnalysisLastPassDiagnostics]
          ELSE [analysisJob EXCEPT
                  !.isTypeAnalysisPassNeeded = fault.isTypeAnalysisPassNeeded,
                  !.typeAnalysisLastPassDiagnostics = fault.typeAnalysisLastPassDiagnostics]

\* Mutant: the catch block adds its diagnostic to the last-pass bucket
\* instead of replacing the bucket.
doTypeAnalysisFaultAppends(out) ==
    LET fault == [isTypeAnalysisPassNeeded |-> FALSE,
                  typeAnalysisLastPassDiagnostics |->
                      addError(analysisJob.typeAnalysisLastPassDiagnostics,
                        "An internal error occurred while performing type analysis")]
    IN  analysisJob' =
          IF out.kind = "ok"
          THEN [analysisJob EXCEPT
                  !.typeAnalysisPassNumber = @ + 1,
                  !.isTypeAnalysisPassNeeded = out.needsAnotherPass,
                  !.typeAnalysisLastPassDiagnostics = out.diagnostics]
          ELSE IF out.kind = "analyzeFault"
          THEN [analysisJob EXCEPT
                  !.typeAnalysisPassNumber = @ + 1,
                  !.isTypeAnalysisPassNeeded = fault.isTypeAnalysisPassNeeded,
                  !.typeAnalysisLastPassDiagnostics = fault.typeAnalysisLastPassDiagnostics]
          ELSE [analysisJob EXCEPT
                  !.isTypeAnalysisPassNeeded = fault.isTypeAnalysisPassNeeded,
                  !.typeAnalysisLastPassDiagnostics = fault.typeAnalysisLastPassDiagnostics]

\* Mutant: the pass number is incremented after analyze() has returned, so a
\* fault in analyze() leaves it alone.
doTypeAnalysisIncrementsLast(out) ==
    LET fault == [isTypeAnalysisPassNeeded |-> FALSE,
                  typeAnalysisLastPassDiagnostics |->
                      addError(<<>>,
                        "An internal error occurred while performing type analysis")]
    IN  analysisJob' =
          IF out.kind = "ok"
          THEN [analysisJob EXCEPT
                  !.typeAnalysisPassNumber = @ + 1,
                  !.isTypeAnalysisPassNeeded = out.needsAnotherPass,
                  !.typeAnalysisLastPassDiagnostics = out.diagnostics]
          ELSE [analysisJob EXCEPT
                  !.isTypeAnalysisPassNeeded = fault.isTypeAnalysisPassNeeded,
                  !.typeAnalysisLastPassDiagnostics = fault.typeAnalysisLastPassDiagnostics]

\* doTypeAnalysis.  out.kind: "ok", "ctorFault" (constructing the TypeAnalyzer
\* throws) or "analyzeFault" (analyze() throws); out.needsAnotherPass: what
\* analyze() returns; out.diagnostics: what it reports.
doTypeAnalysis(out) ==
    LET fault == [isTypeAnalysisPassNeeded |-> FALSE,
                  typeAnalysisLastPassDiagnostics |->
                      addError(<<>>,
                        "An internal error occurred while performing type analysis")]
    IN  analysisJob' =
          IF out.kind = "ok"
          THEN [analysisJob EXCEPT
                  !.typeAnalysisPassNumber = @ + 1,
                  !.isTypeAnalysisPassNeeded = out.needsAnotherPass,
                  !.typeAnalysisLastPassDiagnostics = out.diagnostics]
          ELSE IF out.kind = "analyzeFault"
          THEN [analysisJob EXCEPT
                  !.typeAnalysisPassNumber = @ + 1,
                  !.isTypeAnalysisPassNeeded = fault.isTypeAnalysisPassNeeded,
                  !.typeAnalysisLastPassDiagnostics = fault.typeAnalysisLastPassDiagnostics]
          ELSE [analysisJob EXCEPT
                  !.isTypeAnalysisPassNeeded = fault.isTypeAnalysisPassNeeded,
                  !.typeAnalysisLastPassDiagnostics = fault.typeAnalysisLastPassDiagnostics]

DoTypeAnalysis(out) ==
    \* the analyzer asks for another pass only finitely many times in a row
    /\ (out.kind = "ok" /\ out.needsAnotherPass) =>
           analysisJob.typeAnalysisPassNumber + 1 <= MaxPass
    /\ IF TypeAnalysisAsserts
       THEN doTypeAnalysis(out) /\ UNCHANGED assertFailed
       ELSE assertFailed' = TRUE /\ UNCHANGED analysisJob
    /\ UNCHANGED <<filePath, isTypeshedStubFile, diagnosticVersion, fileContentsVersion,
                   clientVersion, fileContents>>
    /\ returned' = NoCall

\* ---------------------------------------------------------------- finalize
\* Mutant: finalizeAnalysis publishes the diagnostics without a new version.
finalizeAnalysisNoBump ==
    /\ analysisJob' = [analysisJob EXCEPT
                         !.isTypeAnalysisFinalized = TRUE,
                         !.typeAnalysisFinalDiagnostics =
                             analysisJob.typeAnalysisLastPassDiagnostics,
                         !.typeAnalysisLastPassDiagnostics = <<>>]
    /\ diagnosticVersion' = diagnosticVersion

\* Mutant: finalizeAnalysis copies the last-pass bucket and does not clear it.
finalizeAnalysisCopies ==
    /\ analysisJob' = [analysisJob EXCEPT
                         !.isTypeAnalysisFinalized = TRUE,
                         !.typeAnalysisFinalDiagnostics =
                             analysisJob.typeAnalysisLastPassDiagnostics]
    /\ diagnosticVersion' = diagnosticVersion + 1

finalizeAnalysis ==
    /\ analysisJob' = [analysisJob EXCEPT
                         !.isTypeAnalysisFinalized = TRUE,
                         !.typeAnalysisFinalDiagnostics =
                             analysisJob.typeAnalysisLastPassDiagnostics,
                         !.typeAnalysisLastPassDiagnostics = <<>>]
    /\ diagnosticVersion' = diagnosticVersion + 1

FinalizeAnalysis ==
    /\ IF ~isTypeAnalysisRequired
       THEN finalizeAnalysis /\ UNCHANGED assertFailed
       ELSE assertFailed' = TRUE /\ UNCHANGED <<analysisJob, diagnosticVersion>>
    /\ UNCHANGED <<filePath, isTypeshedStubFile, fileContentsVersion, clientVersion,
                   fileContents>>
    /\ returned' = NoCall

\* ------------------------------------------------------------------ inputs
SourcePath == <<"s", "a">>
BuiltinsPath == <<"t", "builtins">>
TypingPath == <<"t", "typing">>

PeerPath(i) == <<"m", ToString(i)>>

\* n import cycles through the file, and the first of them walked backwards.
Cycles(n) == {<<SourcePath, PeerPath(i)>> : i \in 1..n} \cup {<<PeerPath(1), SourcePath>>}

SyntaxError == Diagnostic(Error, "syntax error", <<>>, "r1")
BindingWarning == Diagnostic(Warning, "unbound name", <<>>, "r2")
TypeError == Diagnostic(Error, "type mismatch", <<>>, "r3")

ParseInput(readOk, fault, diagnostics) ==
    [readOk |-> readOk, fault |-> fault, diagnostics |-> diagnostics,
     builtins |-> ImportResult(<<BuiltinsPath>>), typing |-> ImportResult(<<TypingPath>>),
     explicit |-> <<ImportResult(<<PeerPath(1)>>)>>]

SemanticOutcome(kind, diagnostics) == [kind |-> kind, diagnostics |-> diagnostics]

TypeOutcome(kind, needsAnotherPass, diagnostics) ==
    [kind |-> kind, needsAnotherPass |-> needsAnotherPass, diagnostics |-> diagnostics]

\* What parse() can meet: a clean parse, a failed disk read, a fault.
ParseInputs ==
    {ParseInput(TRUE, FALSE, <<SyntaxError>>), ParseInput(FALSE, FALSE, <<>>),
     ParseInput(TRUE, TRUE, <<>>)}

SemanticOutcomes ==
    {SemanticOutcome("ok", <<BindingWarning>>), SemanticOutcome("cleanFault", <<>>),
     SemanticOutcome("analyzerFault", <<>>)}

TypeOutcomes ==
    {TypeOutcome("ok", TRUE, <<>>), TypeOutcome("ok", FALSE, <<TypeError>>),
     TypeOutcome("ctorFault", FALSE, <<>>), TypeOutcome("analyzeFault", FALSE, <<>>)}

\* ------------------------------------------------------------- coordinator
\* The phase operations bump counters; each is cut off at its bound.
CanBump == diagnosticVersion < MaxDiagVersion
CanPass == analysisJob.typeAnalysisPassNumber <= MaxPass

\* The coordinator runs the phase the is*Required predicates demand.
RunParse(in) == CanBump /\ ParseFile(in)

RunSemanticAnalysis(out) ==
    /\ CanBump
    /\ ~isParseRequired /\ isSemanticAnalysisRequired
    /\ DoSemanticAnalysis(out)

RunTypeAnalysis(out) ==
    /\ CanPass
    /\ ~isSemanticAnalysisRequired /\ isTypeAnalysisRequired
    /\ DoTypeAnalysis(out)

RunFinalize ==
    /\ CanBump
    /\ ~isTypeAnalysisRequired
    /\ FinalizeAnalysis

\* ----------------------------------------------------------- specification
Init == InitWith({SourcePath}, {FALSE})

Next ==
    \/ MarkDirty
    \/ MarkReanalysisRequired
    \/ \E version \in {Undefined, Some(1)}, contents \in {"x", "y"} :
           SetClientVersion(version, contents)
    \/ SetTypeAnalysisPassNeeded
    \/ \E c \in {<<SourcePath, PeerPath(1)>>} : AddCircularDependency(c)
    \/ \E in \in ParseInputs : RunParse(in)
    \/ \E out \in SemanticOutcomes : RunSemanticAnalysis(out)
    \/ \E out \in TypeOutcomes : RunTypeAnalysis(out)
    \/ RunFinalize

Spec == Init /\ [][Next]_vars

TypeOK ==
    /\ diagnosticVersion \in 0..MaxDiagVersion
    /\ fileContentsVersion \in 0..MaxContentsVersion
    /\ analysisJob.typeAnalysisPassNumber \in 1..(MaxPass + 1)

\* ------------------------------------------- specification: diagnostics
\* ConfigOptions as getDiagnostics reads it.
Options(cycles, typeshed, ignore) ==
    [reportImportCycles |-> cycles, reportTypeshedErrors |-> typeshed, ignore |-> ignore]

ReportModes == {"none", "warning", "error"}

\* Ignore lists: none, a prefix of the file's path, the path itself, and
\* lists whose first entry is another path or the empty string.
IgnoreLists ==
    {<<>>, <<<<"s">>>>, <<SourcePath>>, <<<<"x">>, <<"s">>>>, <<<<>>, <<"s">>>>}

AllOptions ==
    {Options(c, t, i) : c \in ReportModes, t \in ReportModes, i \in IgnoreLists}

\* Previous-version arguments: absent, the current version, and its neighbours.
AllPrevs ==
    {Undefined} \cup {Some(v) : v \in (diagnosticVersion - 1)..(diagnosticVersion + 1)}

\* The calls the coordinator makes in this specification.
CallOptions ==
    {Options("error", "warning", <<>>),
     Options("error", "none", <<<<"s">>>>),
     Options("warning", "error", <<<<"s">>>>),
     Options("error", "error", <<<<>>, <<"s">>>>)}

CallPrevs == {Undefined, Some(diagnosticVersion)}

InitDiag == InitWith({SourcePath}, BOOLEAN)

NextDiag ==
    \/ MarkReanalysisRequired
    \/ SetTypeAnalysisPassNeeded
    \/ \E c \in Cycles(1) : AddCircularDependency(c)
    \/ \E in \in {ParseInput(TRUE, FALSE, <<SyntaxError>>), ParseInput(TRUE, TRUE, <<>>)} :
           RunParse(in)
    \/ \E out \in {SemanticOutcome("ok", <<BindingWarning>>)} : RunSemanticAnalysis(out)
    \/ \E out \in {TypeOutcome("ok", TRUE, <<>>), TypeOutcome("ok", FALSE, <<TypeError>>)} :
           RunTypeAnalysis(out)
    \/ RunFinalize
    \/ \E options \in CallOptions, prev \in CallPrevs : GetDiagnostics(options, prev)

SpecDiag == InitDiag /\ [][NextDiag]_vars

\* ------------------------------------------------ specification: cycles
\* More distinct cycles than the cap are reported, between the steps of one
\* analysis round and of the reanalysis rounds that follow it.
NextCycles ==
    \/ \E c \in Cycles(NumCycles) : AddCircularDependency(c)
    \/ MarkReanalysisRequired
    \/ SetTypeAnalysisPassNeeded
    \/ \E in \in {ParseInput(TRUE, FALSE, <<>>)} : RunParse(in)
    \/ \E out \in {SemanticOutcome("ok", <<>>)} : RunSemanticAnalysis(out)
    \/ \E out \in {TypeOutcome("ok", FALSE, <<>>)} : RunTypeAnalysis(out)
    \/ RunFinalize

SpecCycles == Init /\ [][NextCycles]_vars

\* ---------------------------------------------- specification: liveness
\* The coordinator keeps running the phase the predicates demand; it
\* finalizes a file once.
CoordinatorStep ==
    \/ \E in \in ParseInputs : isParseRequired /\ RunParse(in)
    \/ \E out \in SemanticOutcomes : RunSemanticAnalysis(out)
    \/ \E out \in TypeOutcomes : RunTypeAnalysis(out)
    \/ ~analysisJob.isTypeAnalysisFinalized /\ RunFinalize

\* The operations that make analysis necessary again.
ResetStep ==
    \/ MarkDirty
    \/ MarkReanalysisRequired
    \/ \E version \in {Undefined, Some(1)}, contents \in {"x", "y"} :
           SetClientVersion(version, contents)
    \/ SetTypeAnalysisPassNeeded

\* Resets and cycle reports come at any time.
NextLive ==
    \/ ResetStep
    \/ \E c \in {<<SourcePath, PeerPath(1)>>} : AddCircularDependency(c)
    \/ CoordinatorStep

SpecLive == Init /\ [][NextLive]_vars /\ WF_vars(CoordinatorStep)

\* ------------------------------------------------ specification: imports
\* The file is an ordinary module, the builtins stub or the typing stub.
ImportFilePaths == {SourcePath, BuiltinsPath, TypingPath}

\* The resolver's answers for an implicit import of `path`: nothing, the
\* module, or a chain of paths whose last one is the module.
ImplicitResults(path) ==
    {ImportResult(<<>>), ImportResult(<<path>>), ImportResult(<<PeerPath(1), path>>)}

\* The explicit imports of the file, each resolved: none, one, one that
\* resolves to no path, and two in source order.
ExplicitResults ==
    {<<>>, <<ImportResult(<<PeerPath(1)>>)>>, <<ImportResult(<<>>)>>,
     <<ImportResult(<<PeerPath(2)>>), ImportResult(<<PeerPath(1)>>)>>}

ImportInput(fault, builtins, typing, explicit) ==
    [readOk |-> TRUE, fault |-> fault, diagnostics |-> <<>>,
     builtins |-> builtins, typing |-> typing, explicit |-> explicit]

ImportInputs ==
    {ImportInput(fault, b, t, e) :
        fault \in BOOLEAN, b \in ImplicitResults(BuiltinsPath),
        t \in ImplicitResults(TypingPath), e \in ExplicitResults}

InitImports == InitWith(ImportFilePaths, {FALSE})

NextImports ==
    \/ MarkDirty
    \/ \E in \in ImportInputs : RunParse(in)
    \/ \E out \in {SemanticOutcome("ok", <<>>)} : RunSemanticAnalysis(out)

SpecImports == InitImports /\ [][NextImports]_vars

\* ------------------------------------------------------------------ claims
Buckets ==
    <<analysisJob.parseDiagnostics, analysisJob.semanticAnalysisDiagnostics,
      analysisJob.typeAnalysisLastPassDiagnostics, analysisJob.typeAnalysisFinalDiagnostics>>

ParseRan == \E in \in ParseInputs : isParseRequired /\ RunParse(in)
SemanticAnalysisRan == \E out \in SemanticOutcomes : RunSemanticAnalysis(out)
TypeAnalysisRan == \E out \in TypeOutcomes : RunTypeAnalysis(out)

\* C1: when the coordinator calls each phase operation only under the
\* is*Required predicates, no assert of doSemanticAnalysis, doTypeAnalysis or
\* finalizeAnalysis fails: none has failed, and wherever the predicates allow
\* a phase, its asserts (parseResults defined, nextPhaseToRun exact) hold.
C1_AssertsHold ==
    /\ assertFailed = FALSE
    /\ (~isParseRequired /\ isSemanticAnalysisRequired) => SemanticAnalysisAsserts
    /\ (~isSemanticAnalysisRequired /\ isTypeAnalysisRequired) => TypeAnalysisAsserts

\* A file whose parse faulted has gone through all phases to finalization.
C1_Witness ==
    /\ isAnalysisFinalized
    /\ analysisJob.parseResults = PlaceholderResults
    /\ analysisJob.typeAnalysisPassNumber >= 3

\* C3: every markDirty step, from whatever state, ends with parse required,
\* so with semantic and type analysis required and the analysis not final.
C3_MarkDirtyResets ==
    [][markDirty =>
         (/\ isParseRequired'
          /\ isSemanticAnalysisRequired'
          /\ isTypeAnalysisRequired'
          /\ ~isAnalysisFinalized')]_vars

\* markDirty has acted on a file that had been analyzed and finalized.
C3_Witness ==
    /\ isParseRequired
    /\ analysisJob.fileContentsVersion >= 0
    /\ analysisJob.nextPhaseToRun = SemanticAnalysis
    /\ analysisJob.typeAnalysisFinalDiagnostics = <<TypeError>>
    /\ ~analysisJob.isTypeAnalysisPassNeeded

\* C4: every markReanalysisRequired step keeps isParseRequired (both versions
\* and the parse results are untouched) and ends with semantic analysis
\* required, the cleaning flag set and the finalized flag clear.
C4_ReanalysisKeepsParse ==
    [][MarkReanalysisRequired =>
         (/\ isParseRequired' = isParseRequired
          /\ fileContentsVersion' = fileContentsVersion
          /\ analysisJob'.fileContentsVersion = analysisJob.fileContentsVersion
          /\ analysisJob'.parseResults = analysisJob.parseResults
          /\ isSemanticAnalysisRequired'
          /\ analysisJob'.parseTreeNeedsCleaning = TRUE
          /\ analysisJob'.isTypeAnalysisFinalized = FALSE)]_vars

\* markReanalysisRequired has acted on a parsed, type-analyzed file.
C4_Witness ==
    /\ ~isParseRequired
    /\ analysisJob.parseTreeNeedsCleaning
    /\ analysisJob.nextPhaseToRun = SemanticAnalysis
    /\ analysisJob.typeAnalysisPassNumber >= 2

\* C5 as stated: the diagnostic version never decreases, and it strictly
\* increases on every completion of parse, doSemanticAnalysis, doTypeAnalysis
\* and finalizeAnalysis.
C5_VersionBumpsOnEveryPhase ==
    [][/\ diagnosticVersion' >= diagnosticVersion
       /\ (ParseRan \/ SemanticAnalysisRan \/ TypeAnalysisRan \/ RunFinalize)
              => diagnosticVersion' > diagnosticVersion]_vars

\* C5 amended: the diagnostic version never decreases; it increases by one on
\* every completion of a parse that ran, of doSemanticAnalysis and of
\* finalizeAnalysis, and whenever the parse, semantic or finalized bucket
\* changes; doTypeAnalysis replaces the last-pass bucket and leaves it alone.
C5_VersionBumps ==
    [][/\ diagnosticVersion' >= diagnosticVersion
       /\ (ParseRan \/ SemanticAnalysisRan \/ RunFinalize)
              => diagnosticVersion' = diagnosticVersion + 1
       /\ (\/ analysisJob'.parseDiagnostics /= analysisJob.parseDiagnostics
           \/ analysisJob'.semanticAnalysisDiagnostics /= analysisJob.semanticAnalysisDiagnostics
           \/ analysisJob'.typeAnalysisFinalDiagnostics /= analysisJob.typeAnalysisFinalDiagnostics)
              => diagnosticVersion' > diagnosticVersion
       /\ TypeAnalysisRan => diagnosticVersion' = diagnosticVersion]_vars

\* A faulted type pass has replaced the last-pass bucket after a faulted parse
\* and a faulted semantic analysis, at diagnostic version 2.
C5_Witness ==
    /\ diagnosticVersion = 2
    /\ analysisJob.typeAnalysisLastPassDiagnostics /= <<>>
    /\ analysisJob.parseResults = PlaceholderResults
    /\ analysisJob.semanticAnalysisDiagnostics /= <<BindingWarning>>
    /\ ~analysisJob.isTypeAnalysisPassNeeded

\* C7: a parse that ran ends with parse not required and semantic analysis
\* required, and semantic analysis stays required across every step that is
\* not a doSemanticAnalysis.
C7_SemanticRequiredUntilRun ==
    [][/\ ParseRan => (~isParseRequired' /\ isSemanticAnalysisRequired')
       /\ (isSemanticAnalysisRequired /\ ~SemanticAnalysisRan)
              => isSemanticAnalysisRequired']_vars

\* After a parse, other operations have been interleaved (a reanalysis
\* request, a recorded cycle, a client buffer) and semantic analysis has not
\* run since.
C7_Witness ==
    /\ ~isParseRequired
    /\ isSemanticAnalysisRequired
    /\ analysisJob.parseTreeNeedsCleaning
    /\ Len(analysisJob.circularDependencies) > 0
    /\ IsDefined(fileContents)

\* C6 as stated: once the type analysis has converged and finalizeAnalysis
\* has run, the second of two consecutive getDiagnostics calls with the same
\* previous-version argument returns none.
C6_SecondCallReturnsNone ==
    (returned.repeated /\ isAnalysisFinalized) => ~returned.defined

\* C6 amended: getDiagnostics with the current diagnostic version returns none
\* under every configuration; a call changes none of the file's state; and the
\* second of two consecutive calls with the same arguments returns what the
\* first did (none exactly when the first returned none).
C6_PureVersionGated ==
    [][/\ \A options \in AllOptions :
              getDiagnostics(options, Some(diagnosticVersion)) = None
       /\ returned'.called =>
              /\ UNCHANGED fileVars
              /\ returned'.prev = Some(diagnosticVersion) => ~returned'.defined
              /\ returned'.repeated =>
                     /\ returned'.defined = returned.defined
                     /\ returned'.list = returned.list]_vars

\* On a finalized file with published type diagnostics, getDiagnostics has
\* been called twice in a row with the current version and returned none.
C6_Witness ==
    /\ isAnalysisFinalized
    /\ analysisJob.typeAnalysisFinalDiagnostics = <<TypeError>>
    /\ returned.repeated
    /\ returned.prev = Some(diagnosticVersion)
    /\ ~returned.defined

\* C9: for a typeshed file, stub-error mode "none" yields none whatever the
\* buckets, cycles, other settings and previous version are; mode "warning"
\* yields what mode "error" would, diagnostic by diagnostic with the same
\* message and range, and no diagnostic of category error (the appended
\* import-cycle diagnostics included).
C9_TypeshedModes ==
    isTypeshedStubFile =>
        \A options \in AllOptions, prev \in AllPrevs :
            LET got == getDiagnostics(options, prev)
                plain == getDiagnostics(
                    Options(options.reportImportCycles, "error", options.ignore), prev)
            IN  /\ options.reportTypeshedErrors = "none" => got = None
                /\ options.reportTypeshedErrors = "warning" =>
                       /\ got.defined = plain.defined
                       /\ Len(got.list) = Len(plain.list)
                       /\ \A i \in 1..Len(got.list) :
                              /\ got.list[i].category /= Error
                              /\ got.list[i].message = plain.list[i].message
                              /\ got.list[i].range = plain.list[i].range

\* A typeshed file with a syntax error and a recorded cycle was queried with
\* cycle mode "error" and stub-error mode "warning": both came back.
C9_Witness ==
    /\ isTypeshedStubFile
    /\ analysisJob.parseDiagnostics = <<SyntaxError>>
    /\ Len(analysisJob.circularDependencies) > 0
    /\ returned.called
    /\ returned.options = Some(Options("error", "warning", <<>>))
    /\ returned.defined
    /\ Len(returned.list) >= 2

\* Some configured ignore path is a prefix of the file's path.
IgnorePathMatches(ignore) ==
    \E i \in 1..Len(ignore) : startsWith(filePath, ignore[i])

\* The first configured ignore path that is a prefix of the file's path is
\* not the empty string.
FirstIgnoreMatchNonEmpty(ignore) ==
    \E i \in 1..Len(ignore) :
        /\ startsWith(filePath, ignore[i])
        /\ Len(ignore[i]) > 0
        /\ \A j \in 1..(i - 1) : ~startsWith(filePath, ignore[j])

NoDuplicateCycles(deps) ==
    \A i, j \in 1..Len(deps) : getPaths(deps[i]) = getPaths(deps[j]) => i = j

\* C8: the stored circular-dependency list never has more than 4 entries nor
\* two entries with the same ordered path chain, and offering a cycle to a
\* list of 4 leaves the list as it is.
C8_CyclesCappedAndDistinct ==
    [][/\ Len(analysisJob'.circularDependencies) <= 4
       /\ NoDuplicateCycles(analysisJob'.circularDependencies)
       /\ \A c \in Cycles(NumCycles) :
              (AddCircularDependency(c) /\ Len(analysisJob.circularDependencies) = 4)
                  => analysisJob'.circularDependencies = analysisJob.circularDependencies]_vars

\* The list is full, and holds a cycle and the same paths in reverse order.
C8_Witness ==
    /\ Len(analysisJob.circularDependencies) = 4
    /\ \E i, j \in 1..4 :
           /\ analysisJob.circularDependencies[i] = <<SourcePath, PeerPath(1)>>
           /\ analysisJob.circularDependencies[j] = <<PeerPath(1), SourcePath>>

\* C2: if from some point on no reset occurs, then, with a coordinator that
\* fairly keeps running the demanded phase and a type analyzer that faults or
\* asks for another pass only finitely many times in a row, the file becomes
\* finalized and stays finalized.
C2_EventuallyFinalized ==
    (<>[][~ResetStep]_vars) => <>[]isAnalysisFinalized

\* A file is finalized after a faulted type pass.
C2_Witness ==
    /\ isAnalysisFinalized
    /\ analysisJob.typeAnalysisFinalDiagnostics =
           addError(<<>>, "An internal error occurred while performing type analysis")

\* The implicit import `result` resolves, first of all, to this file itself.
ResolvesToSelf(result) ==
    /\ Len(result.resolvedPaths) > 0
    /\ result.resolvedPaths[1] = filePath

\* C11: after a successful parse getImports() is the builtins result, then
\* the typing result, then the explicit results in source order, each implicit
\* one left out exactly when its first resolved path is the file's own path;
\* getBuiltinsImport() is then undefined, resp. typingModulePath unset, and
\* otherwise getBuiltinsImport() is the builtins result; an import resolved to
\* no path keeps its entry; an ordinary file with one explicit import has
\* exactly the three entries in that order.
C11_ImportsInOrder ==
    [][\A in \in ImportInputs :
          (isParseRequired /\ ~in.fault /\ RunParse(in)) =>
              /\ getImports' =
                     (IF ResolvesToSelf(in.builtins) THEN <<>> ELSE <<in.builtins>>)
                     \o (IF ResolvesToSelf(in.typing) THEN <<>> ELSE <<in.typing>>)
                     \o in.explicit
              /\ getBuiltinsImport' =
                     IF ResolvesToSelf(in.builtins) THEN Undefined ELSE Some(in.builtins)
              /\ ResolvesToSelf(in.typing) => analysisJob'.typingModulePath = Undefined
              /\ (~ResolvesToSelf(in.builtins) /\ ~ResolvesToSelf(in.typing)
                    /\ Len(in.explicit) = 1) =>
                     getImports' = <<in.builtins, in.typing, in.explicit[1]>>]_vars

\* The typing stub itself was parsed: its builtins import did not resolve and
\* it has two explicit imports; these three have their entries, in order, and
\* the typing import has none.
C11_Witness ==
    /\ filePath = TypingPath
    /\ ~isParseRequired
    /\ getImports = <<ImportResult(<<>>), ImportResult(<<PeerPath(2)>>),
                      ImportResult(<<PeerPath(1)>>)>>
    /\ getBuiltinsImport = Some(ImportResult(<<>>))
    /\ analysisJob.typingModulePath = Undefined
    /\ analysisJob.parseResults = Some(ParsedTree)

\* C12: doSemanticAnalysis leaves the pass number at 1, every doTypeAnalysis
\* call that does not fault adds exactly 1 to it and nothing else changes it,
\* so that k such calls after a doSemanticAnalysis leave it at k + 1; right
\* after such a call isTypeAnalysisRequired() is what the pass reported as
\* needsAnotherPass.
C12_PassCounting ==
    [][/\ SemanticAnalysisRan => analysisJob'.typeAnalysisPassNumber = 1
       /\ \A out \in TypeOutcomes :
              (out.kind = "ok" /\ RunTypeAnalysis(out)) =>
                  /\ analysisJob'.typeAnalysisPassNumber =
                         analysisJob.typeAnalysisPassNumber + 1
                  /\ isTypeAnalysisRequired' = out.needsAnotherPass
       /\ analysisJob'.typeAnalysisPassNumber /= analysisJob.typeAnalysisPassNumber
              => (SemanticAnalysisRan \/ TypeAnalysisRan)]_vars

\* The analyzer asked for another pass three times and then converged: four
\* calls, pass number 5, no type analysis required, nothing faulted.
C12_Witness ==
    /\ analysisJob.typeAnalysisPassNumber = 5
    /\ ~isTypeAnalysisRequired
    /\ analysisJob.typeAnalysisLastPassDiagnostics = <<TypeError>>
    /\ analysisJob.parseDiagnostics = <<SyntaxError>>
    /\ analysisJob.semanticAnalysisDiagnostics = <<BindingWarning>>

\* The one diagnostic the catch block of doTypeAnalysis stores.
TypeAnalysisFault ==
    <<Diagnostic(Error, "An internal error occurred while performing type analysis",
                 <<>>, NoRange)>>

\* C13: a doTypeAnalysis call that faults completes normally, leaves exactly
\* the one synthetic error in the last-pass bucket, isTypeAnalysisPassNeeded
\* false and isTypeAnalysisRequired() false; and isTypeAnalysisRequired()
\* goes from false to true only by markDirty (also when setClientVersion
\* calls it), markReanalysisRequired or setTypeAnalysisPassNeeded.
C13_FaultForcesConvergence ==
    [][/\ \A out \in TypeOutcomes :
              (out.kind /= "ok" /\ RunTypeAnalysis(out)) =>
                  /\ assertFailed' = FALSE
                  /\ analysisJob'.typeAnalysisLastPassDiagnostics = TypeAnalysisFault
                  /\ analysisJob'.isTypeAnalysisPassNeeded = FALSE
                  /\ ~isTypeAnalysisRequired'
       /\ (~isTypeAnalysisRequired /\ isTypeAnalysisRequired') =>
              (markDirty \/ MarkReanalysisRequired \/ SetTypeAnalysisPassNeeded)]_vars

\* A pass that followed a converged pass with a type error faulted: only the
\* synthetic error is left, at pass number 3 or later, and no pass is needed.
C13_Witness ==
    /\ analysisJob.typeAnalysisLastPassDiagnostics = TypeAnalysisFault
    /\ analysisJob.typeAnalysisFinalDiagnostics = <<TypeError>>
    /\ analysisJob.typeAnalysisPassNumber >= 3
    /\ ~isTypeAnalysisRequired
    /\ ~analysisJob.isTypeAnalysisFinalized

\* C14: in every step nextPhaseToRun stays as it is, or goes from
\* SemanticAnalysis to TypeAnalysis, or goes back from TypeAnalysis to
\* SemanticAnalysis in a markDirty (also when setClientVersion calls it) or
\* markReanalysisRequired step; it is never Parse; and a parse that runs
\* leaves it as it is, since it is SemanticAnalysis whenever parse is required.
C14_CursorOnlyAdvances ==
    [][/\ \/ analysisJob'.nextPhaseToRun = analysisJob.nextPhaseToRun
          \/ /\ analysisJob.nextPhaseToRun = SemanticAnalysis
             /\ analysisJob'.nextPhaseToRun = TypeAnalysis
          \/ /\ analysisJob.nextPhaseToRun = TypeAnalysis
             /\ analysisJob'.nextPhaseToRun = SemanticAnalysis
             /\ (markDirty \/ MarkReanalysisRequired)
       /\ analysisJob.nextPhaseToRun /= Parse
       /\ analysisJob'.nextPhaseToRun /= Parse
       /\ isParseRequired => analysisJob.nextPhaseToRun = SemanticAnalysis
       /\ isParseRequired' => analysisJob'.nextPhaseToRun = SemanticAnalysis
       /\ ParseRan => analysisJob'.nextPhaseToRun = analysisJob.nextPhaseToRun]_vars

\* A file that had reached type analysis was marked dirty and parsed again:
\* the cursor is back at SemanticAnalysis.
C14_Witness ==
    /\ analysisJob.nextPhaseToRun = SemanticAnalysis
    /\ ~isParseRequired
    /\ analysisJob.fileContentsVersion >= 1
    /\ analysisJob.typeAnalysisPassNumber >= 2
    /\ ~analysisJob.parseTreeNeedsCleaning

\* C15: a finalizeAnalysis step sets isTypeAnalysisFinalized, makes the
\* finalized bucket what the last-pass bucket was, empties the last-pass
\* bucket, leaves the parse and semantic buckets alone and adds one to the
\* diagnostic version; and a doTypeAnalysis step, which replaces the last-pass
\* bucket, changes nothing of what getDiagnostics returns under any
\* configuration.
C15_FinalizeMoves ==
    [][/\ RunFinalize =>
              /\ analysisJob'.isTypeAnalysisFinalized
              /\ analysisJob'.typeAnalysisFinalDiagnostics =
                     analysisJob.typeAnalysisLastPassDiagnostics
              /\ analysisJob'.typeAnalysisLastPassDiagnostics = <<>>
              /\ analysisJob'.parseDiagnostics = analysisJob.parseDiagnostics
              /\ analysisJob'.semanticAnalysisDiagnostics =
                     analysisJob.semanticAnalysisDiagnostics
              /\ diagnosticVersion' = diagnosticVersion + 1
       /\ TypeAnalysisRan =>
              \A options \in AllOptions :
                  getDiagnostics(options, Undefined)' = getDiagnostics(options, Undefined)]_vars

\* The type error of the converged pass was finalized, the last-pass bucket is
\* empty, and a getDiagnostics call returned the published type error.
C15_Witness ==
    /\ analysisJob.isTypeAnalysisFinalized
    /\ analysisJob.typeAnalysisFinalDiagnostics = <<TypeError>>
    /\ analysisJob.typeAnalysisLastPassDiagnostics = <<>>
    /\ ~isTypeshedStubFile
    /\ returned.called
    /\ returned.options = Some(Options("error", "warning", <<>>))
    /\ returned.defined
    /\ \E i \in 1..Len(returned.list) : returned.list[i] = TypeError

\* C16 as stated: every doTypeAnalysis call adds exactly 1 to the pass
\* number, also one that faults, wherever in the phase the fault occurs.
C16_AlwaysIncrements ==
    [][TypeAnalysisRan =>
           analysisJob'.typeAnalysisPassNumber = analysisJob.typeAnalysisPassNumber + 1]_vars

\* C16 amended: a doTypeAnalysis call adds exactly 1 to the pass number when
\* the TypeAnalyzer has been constructed, whether analyze() then returns or
\* faults, and leaves the pass number as it is when constructing the
\* TypeAnalyzer faults; in both fault cases no further pass is needed.
C16_IncrementsOnceConstructed ==
    [][\A out \in TypeOutcomes :
          RunTypeAnalysis(out) =>
              /\ analysisJob'.typeAnalysisPassNumber =
                     analysisJob.typeAnalysisPassNumber
                         + (IF out.kind = "ctorFault" THEN 0 ELSE 1)
              /\ out.kind /= "ok" => ~analysisJob'.isTypeAnalysisPassNeeded]_vars

\* The first pass after a semantic analysis faulted while the analyzer was
\* being constructed: the synthetic error is stored, the pass number is
\* still 1.
C16_Witness ==
    /\ analysisJob.typeAnalysisPassNumber = 1
    /\ analysisJob.nextPhaseToRun = TypeAnalysis
    /\ analysisJob.typeAnalysisLastPassDiagnostics = TypeAnalysisFault
    /\ ~analysisJob.isTypeAnalysisPassNeeded

\* C17: a step that leaves the diagnostic version as it is leaves the list
\* getDiagnostics computes as it is, under every configuration; so two states
\* of one execution with the same diagnostic version show the same list.
C17_SameVersionSameList ==
    [][diagnosticVersion' = diagnosticVersion =>
           \A options \in AllOptions :
               getDiagnostics(options, Undefined)' = getDiagnostics(options, Undefined)]_vars

\* C18: a setClientVersion call that changes the text parse() would read
\* leaves parse required, and one whose contents are the current buffer's
\* leaves the contents version as it is.
C18_NoStaleParse ==
    [][\A version \in {Undefined, Some(1)}, contents \in {"x", "y"} :
          SetClientVersion(version, contents) =>
              /\ SourceText' /= SourceText => isParseRequired'
              /\ (IsDefined(version) /\ fileContents = Some(contents)) =>
                     fileContentsVersion' = fileContentsVersion]_vars

\* The one diagnostic the catch block of parse() stores.
ParseFault ==
    <<Diagnostic(Error, "An internal error occurred while parsing file", <<>>, NoRange)>>

\* C19: a parse() call on a file whose parse is up to date returns false and
\* changes nothing of the file; a call that runs returns true, throws
\* nothing, and leaves the analyzed version at the contents version, the
\* cursor at SemanticAnalysis, the cleaning flag clear and the diagnostic
\* version one higher, on the success and on the fault path; on the fault
\* path the parse bucket is the one synthetic error, parseResults the empty
\* placeholder, getImports() empty and getBuiltinsImport() undefined.
C19_ParseOutcome ==
    [][\A in \in ParseInputs :
          RunParse(in) =>
              IF ~isParseRequired
              THEN ~parseReturns /\ UNCHANGED fileVars
              ELSE /\ parseReturns
                   /\ assertFailed' = FALSE
                   /\ analysisJob'.fileContentsVersion = fileContentsVersion'
                   /\ fileContentsVersion' = fileContentsVersion
                   /\ analysisJob'.nextPhaseToRun = SemanticAnalysis
                   /\ analysisJob'.parseTreeNeedsCleaning = FALSE
                   /\ diagnosticVersion' = diagnosticVersion + 1
                   /\ in.fault =>
                          /\ analysisJob'.parseDiagnostics = ParseFault
                          /\ analysisJob'.parseResults = Some(PlaceholderTree)
                          /\ getImports' = <<>>
                          /\ getBuiltinsImport' = Undefined]_vars

\* A file that had been parsed with its imports resolved was marked dirty
\* and the second parse faulted: the placeholder and the synthetic error are
\* stored and no import is left.
C19_Witness ==
    /\ ~isParseRequired
    /\ fileContentsVersion >= 1
    /\ analysisJob.parseResults = Some(PlaceholderTree)
    /\ analysisJob.parseDiagnostics = ParseFault
    /\ getImports = <<>>
    /\ IsDefined(analysisJob.typingModulePath)

\* The one diagnostic the catch block of doSemanticAnalysis stores.
SemanticAnalysisFault ==
    <<Diagnostic(Error, "An internal error occurred while performing semantic analysis",
                 <<>>, NoRange)>>

\* C20: every doSemanticAnalysis step, whether the analyzer succeeds or the
\* cleaner or the analyzer faults, ends with the cursor at TypeAnalysis, pass
\* number 1, no recorded cycle, a pass needed, the analysis not finalized and
\* the diagnostic version one higher; it leaves the parse bucket and both
\* type buckets alone; after a fault the semantic bucket is the one synthetic
\* error.
C20_SemanticAnalysisOutcome ==
    [][\A out \in SemanticOutcomes :
          RunSemanticAnalysis(out) =>
              /\ assertFailed' = FALSE
              /\ analysisJob'.nextPhaseToRun = TypeAnalysis
              /\ analysisJob'.typeAnalysisPassNumber = 1
              /\ analysisJob'.circularDependencies = <<>>
              /\ analysisJob'.isTypeAnalysisPassNeeded = TRUE
              /\ analysisJob'.isTypeAnalysisFinalized = FALSE
              /\ diagnosticVersion' = diagnosticVersion + 1
              /\ analysisJob'.parseDiagnostics = analysisJob.parseDiagnostics
              /\ analysisJob'.typeAnalysisLastPassDiagnostics =
                     analysisJob.typeAnalysisLastPassDiagnostics
              /\ analysisJob'.typeAnalysisFinalDiagnostics =
                     analysisJob.typeAnalysisFinalDiagnostics
              /\ out.kind /= "ok" =>
                     analysisJob'.semanticAnalysisDiagnostics = SemanticAnalysisFault]_vars

\* A finalized file with a published type error was sent back to semantic
\* analysis, which faulted: pass number 1, no cycle, the synthetic error in the
\* semantic bucket, the type error still in the finalized bucket.
C20_Witness ==
    /\ analysisJob.nextPhaseToRun = TypeAnalysis
    /\ analysisJob.typeAnalysisPassNumber = 1
    /\ analysisJob.isTypeAnalysisPassNeeded
    /\ analysisJob.circularDependencies = <<>>
    /\ analysisJob.semanticAnalysisDiagnostics = SemanticAnalysisFault
    /\ analysisJob.typeAnalysisFinalDiagnostics = <<TypeError>>
    /\ analysisJob.parseDiagnostics = <<SyntaxError>>

\* C21: in every reachable state, a phase cursor at TypeAnalysis comes with a
\* clear cleaning flag: doSemanticAnalysis has scrubbed a reused tree before
\* type analysis runs on it, also when it completed through its catch block.
C21_NoUncleanedTypeAnalysis ==
    analysisJob.nextPhaseToRun = TypeAnalysis => ~analysisJob.parseTreeNeedsCleaning

\* C22: in every reachable state a set finalized flag comes with no type
\* analysis required and an empty last-pass bucket, so isAnalysisFinalized()
\* is the flag itself; the flag is clear wherever type analysis is required.
C22_FinalizedFlagNotStale ==
    /\ analysisJob.isTypeAnalysisFinalized =>
           /\ ~isTypeAnalysisRequired
           /\ analysisJob.typeAnalysisLastPassDiagnostics = <<>>
    /\ isAnalysisFinalized = analysisJob.isTypeAnalysisFinalized

\* After a change of the client's buffer the file was parsed again, a pass
\* was requested once more, and the file was finalized with its type error.
C22_Witness ==
    /\ analysisJob.isTypeAnalysisFinalized
    /\ analysisJob.fileContentsVersion >= 1
    /\ IsDefined(fileContents)
    /\ analysisJob.typeAnalysisPassNumber >= 3
    /\ analysisJob.typeAnalysisFinalDiagnostics = <<TypeError>>

\* C23: a finalizeAnalysis step on a file whose finalized flag is set (no
\* doTypeAnalysis has run since the finalizeAnalysis before it) leaves the
\* finalized bucket, and the list getDiagnostics computes under every
\* configuration, as they were.
C23_FinalizeIdempotent ==
    [][(RunFinalize /\ analysisJob.isTypeAnalysisFinalized) =>
           /\ analysisJob'.typeAnalysisFinalDiagnostics =
                  analysisJob.typeAnalysisFinalDiagnostics
           /\ \A options \in AllOptions :
                  getDiagnostics(options, Undefined)' = getDiagnostics(options, Undefined)]_vars

====
